---- MODULE Spec2Model ----
(***************************************************************************)
(* The persisted domain schema of app/models.py as a state machine.        *)
(*                                                                         *)
(* The state is the store: one table per SQLModel class declared with      *)
(* table=True, each a sequence of rows whose index is the auto-assigned    *)
(* primary key.  The operations are the ones the schema itself defines:    *)
(*   - building a row from a Create shape (or, for a table without one,    *)
(*     from the fields the table class requires), every omitted column     *)
(*     taking the default its Field declares;                              *)
(*   - applying an Update shape, in which an absent (None) field leaves    *)
(*     the column alone;                                                   *)
(*   - storing a value of the declared type into a column that no shape    *)
(*     carries but that is not fixed at creation (current_stock,           *)
(*     total_amount, StockOpname.status, the count columns of              *)
(*     StockOpnameItem);                                                   *)
(*   - the constraints the columns declare: unique=True and foreign_key.   *)
(* The file holds no validator, no computed field and no event hook, so    *)
(* nothing else happens when a row is built or changed.                    *)
(*                                                                         *)
(* Decimal columns are modelled by whole numbers (every value used is an   *)
(* exact Decimal with zero fractional digits, so sums and products are     *)
(* exact); Optional[...] columns by a set holding at most one value;       *)
(* dates and timestamps by small integers.  Free-text columns that no      *)
(* property reads (description, notes, addresses, ...) are left out: they  *)
(* are copied like the text columns that are kept.                         *)
(***************************************************************************)
EXTENDS Integers, Sequences, FiniteSets, TLC

\* The store holds at most MaxRows rows, all tables together.
MaxRows == 4

(***************************************************************************)
(* Optional values.                                                        *)
(***************************************************************************)
None == {}

Some(v) == {v}

Opt(S) == {None} \cup {Some(v) : v \in S}

ValueOf(o) == CHOOSE v \in o : TRUE

\* The value an Update shape's field gives a column: the column's old value
\* when the field is absent, the carried value otherwise.
OrElse(o, old) == IF o = None THEN old ELSE ValueOf(o)

\* The same for a column that is Optional itself: the carried value stays
\* wrapped.
OrKeep(o, old) == IF o = None THEN old ELSE o

(***************************************************************************)
(* Enumerations.                                                           *)
(***************************************************************************)
UserRole ==
    {"administrator", "inventory_manager", "financial_staff", "production_manager"}

InventoryMovementType == {"in", "out", "adjustment"}

OrderStatus == {"pending", "in_progress", "completed", "cancelled", "delivered"}

TransactionType == {"income", "expense"}

StockOpnameStatus == {"planned", "in_progress", "completed", "cancelled"}

(***************************************************************************)
(* The values requests are drawn from.                                     *)
(***************************************************************************)
Ids == 1..MaxRows

Usernames == {"ani", "budi"}

Emails == {"ani@bag.id", "budi@bag.id"}

Codes == {"RM-1", "RM-2"}

Numbers == {"N-1", "N-2"}

DepartmentNames == {"sewing", "cutting"}

Quantities == {5, 15}

Prices == {0, 3}

StockLevels == {-3, 0, 12}

Amounts == {0, 15}

\* The one instant the clock shows.
Now == "2026-01-01T00:00:00"

VARIABLES
    users,
    raw_materials,
    inventory_movements,
    stock_opnames,
    stock_opname_items,
    customers,
    orders,
    products,
    order_items,
    financial_categories,
    financial_transactions,
    departments,
    employees,
    response

vars ==
    << users, raw_materials, inventory_movements, stock_opnames,
       stock_opname_items, customers, orders, products, order_items,
       financial_categories, financial_transactions, departments, employees,
       response >>

inventoryTables == << users, raw_materials, inventory_movements >>

opnameTables == << stock_opnames, stock_opname_items >>

orderTables == << customers, orders, products, order_items >>

financeTables == << financial_categories, financial_transactions >>

staffTables == << departments, employees >>

tables ==
    << inventoryTables, opnameTables, orderTables, financeTables, staffTables >>

RowCount ==
    Len(users) + Len(raw_materials) + Len(inventory_movements)
    + Len(stock_opnames) + Len(stock_opname_items) + Len(customers)
    + Len(orders) + Len(products) + Len(order_items)
    + Len(financial_categories) + Len(financial_transactions)
    + Len(departments) + Len(employees)

\* The rows of a table, as a set of primary keys.
Keys(table) == 1..Len(table)

\* unique=True: no row of the table other than `self` (0 for a new row)
\* holds value v in column f.
UniqueViolation(table, self, f, v) ==
    \E i \in Keys(table) : i # self /\ table[i][f] = v

\* foreign_key: the referenced row exists.
ForeignKeyViolation(table, id) == id \notin Keys(table)

\* What a request ends with.
Outcome(uniqueBroken, foreignKeyBroken) ==
    IF uniqueBroken THEN "unique_violation"
    ELSE IF foreignKeyBroken THEN "foreign_key_violation"
    ELSE "ok"

Init ==
    /\ users = << >>
    /\ raw_materials = << >>
    /\ inventory_movements = << >>
    /\ stock_opnames = << >>
    /\ stock_opname_items = << >>
    /\ customers = << >>
    /\ orders = << >>
    /\ products = << >>
    /\ order_items = << >>
    /\ financial_categories = << >>
    /\ financial_transactions = << >>
    /\ departments = << >>
    /\ employees = << >>
    /\ response = "none"

(***************************************************************************)
(* Users.                                                                  *)
(***************************************************************************)
UserCreate == [username : Usernames, email : Emails]

UserUpdate ==
    [username : Opt(Usernames), email : Opt(Emails),
     role : Opt({"administrator"}), is_active : Opt({FALSE})]

\* The row built from a UserCreate shape.
User(c) ==
    [username |-> c.username, email |-> c.email, role |-> "inventory_manager",
     is_active |-> TRUE, updated_at |-> None]

UserCreateOutcome(c) ==
    Outcome(UniqueViolation(users, 0, "username", c.username)
                \/ UniqueViolation(users, 0, "email", c.email),
            FALSE)

CreateUser(c) ==
    /\ RowCount < MaxRows
    /\ response' = UserCreateOutcome(c)
    /\ users' = IF response' = "ok" THEN Append(users, User(c)) ELSE users
    /\ UNCHANGED << raw_materials, inventory_movements, opnameTables,
                    orderTables, financeTables, staffTables >>

\* ApplyUserUpdate with the shape dumped whole: an absent is_active arrives
\* as the column's default instead of being skipped.
ApplyUserUpdateDumpedWhole(u, s, stamp) ==
    [u EXCEPT !.username = OrElse(s.username, @),
              !.email = OrElse(s.email, @),
              !.role = OrElse(s.role, @),
              !.is_active = OrElse(s.is_active, TRUE),
              !.updated_at = OrKeep(stamp, @)]

\* The row a UserUpdate shape turns row u into.
ApplyUserUpdate(u, s, stamp) ==
    [u EXCEPT !.username = OrElse(s.username, @),
              !.email = OrElse(s.email, @),
              !.role = OrElse(s.role, @),
              !.is_active = OrElse(s.is_active, @),
              !.updated_at = OrKeep(stamp, @)]

\* UserUpdateOutcome that looks at username only.
UserUpdateOutcomeUsernameOnly(id, s) ==
    Outcome(UniqueViolation(users, id, "username", OrElse(s.username, users[id].username)),
            FALSE)

UserUpdateOutcome(id, s) ==
    Outcome(UniqueViolation(users, id, "username", OrElse(s.username, users[id].username))
                \/ UniqueViolation(users, id, "email", OrElse(s.email, users[id].email)),
            FALSE)

UpdateUser(id, s, stamp) ==
    /\ id \in Keys(users)
    /\ response' = UserUpdateOutcome(id, s)
    /\ users' = IF response' = "ok"
                THEN [users EXCEPT ![id] = ApplyUserUpdate(@, s, stamp)]
                ELSE users
    /\ UNCHANGED << raw_materials, inventory_movements, opnameTables,
                    orderTables, financeTables, staffTables >>

(***************************************************************************)
(* Raw materials and the inventory ledger.                                 *)
(***************************************************************************)
RawMaterialCreate == [code : Codes, minimum_stock : {0, 10}]

RawMaterialUpdate ==
    [name : Opt({"leather"}), unit_price : Opt({3}), minimum_stock : Opt({10})]

\* The row built from a RawMaterialCreate shape: the shape carries no
\* current_stock, which takes its default.
RawMaterial(c) ==
    [code |-> c.code, name |-> "canvas", unit_price |-> 0, current_stock |-> 0,
     minimum_stock |-> c.minimum_stock, updated_at |-> None]

RawMaterialCreateOutcome(c) ==
    Outcome(UniqueViolation(raw_materials, 0, "code", c.code), FALSE)

CreateRawMaterial(c) ==
    /\ RowCount < MaxRows
    /\ response' = RawMaterialCreateOutcome(c)
    /\ raw_materials' = IF response' = "ok"
                        THEN Append(raw_materials, RawMaterial(c))
                        ELSE raw_materials
    /\ UNCHANGED << users, inventory_movements, opnameTables, orderTables,
                    financeTables, staffTables >>

\* The row a RawMaterialUpdate shape turns row r into: the shape carries
\* neither code nor current_stock.
ApplyRawMaterialUpdate(r, s, stamp) ==
    [r EXCEPT !.name = OrElse(s.name, @),
              !.unit_price = OrElse(s.unit_price, @),
              !.minimum_stock = OrElse(s.minimum_stock, @),
              !.updated_at = OrKeep(stamp, @)]

UpdateRawMaterial(id, s, stamp) ==
    /\ id \in Keys(raw_materials)
    /\ response' = "ok"
    /\ raw_materials' = [raw_materials EXCEPT ![id] = ApplyRawMaterialUpdate(@, s, stamp)]
    /\ UNCHANGED << users, inventory_movements, opnameTables, orderTables,
                    financeTables, staffTables >>

\* current_stock is a stored Decimal column with no bound: whoever keeps it
\* may store any value in it.
WriteCurrentStock(id, v) ==
    /\ id \in Keys(raw_materials)
    /\ raw_materials[id].current_stock # v
    /\ response' = "ok"
    /\ raw_materials' = [raw_materials EXCEPT ![id].current_stock = v]
    /\ UNCHANGED << users, inventory_movements, opnameTables, orderTables,
                    financeTables, staffTables >>

InventoryMovementCreate ==
    [raw_material_id : Ids, movement_type : InventoryMovementType,
     quantity : Quantities, unit_price : Prices]

\* InventoryMovement with total_value computed from the shape.
InventoryMovementWithTotal(c, uid) ==
    [raw_material_id |-> c.raw_material_id, user_id |-> uid,
     movement_type |-> c.movement_type, quantity |-> c.quantity,
     unit_price |-> c.unit_price, total_value |-> c.quantity * c.unit_price,
     movement_date |-> Now]

\* The row built from an InventoryMovementCreate shape for user `uid`: the
\* shape carries no total_value, which takes its default.
InventoryMovement(c, uid) ==
    [raw_material_id |-> c.raw_material_id, user_id |-> uid,
     movement_type |-> c.movement_type, quantity |-> c.quantity,
     unit_price |-> c.unit_price, total_value |-> 0, movement_date |-> Now]

\* InventoryMovementCreateOutcome with a stock floor: an 'out' movement larger
\* than the material's current_stock is turned down.
InventoryMovementCreateOutcomeWithFloor(c, uid) ==
    IF ForeignKeyViolation(raw_materials, c.raw_material_id)
           \/ ForeignKeyViolation(users, uid)
    THEN "foreign_key_violation"
    ELSE IF c.movement_type = "out"
              /\ c.quantity > raw_materials[c.raw_material_id].current_stock
         THEN "insufficient_stock"
         ELSE "ok"

\* What the schema checks of a movement: its two foreign keys, and nothing
\* about the stock of the material it moves.
InventoryMovementCreateOutcome(c, uid) ==
    Outcome(FALSE,
            ForeignKeyViolation(raw_materials, c.raw_material_id)
                \/ ForeignKeyViolation(users, uid))

\* CreateInventoryMovement that also moves the material's current_stock.
CreateInventoryMovementMovingStock(c, uid) ==
    /\ RowCount < MaxRows
    /\ response' = InventoryMovementCreateOutcome(c, uid)
    /\ inventory_movements' =
           IF response' = "ok"
           THEN Append(inventory_movements, InventoryMovement(c, uid))
           ELSE inventory_movements
    /\ raw_materials' =
           IF response' = "ok"
           THEN [raw_materials EXCEPT ![c.raw_material_id].current_stock =
                     IF c.movement_type = "out" THEN @ - c.quantity ELSE @ + c.quantity]
           ELSE raw_materials
    /\ UNCHANGED << users, opnameTables, orderTables, financeTables, staffTables >>

\* CreateInventoryMovement that keeps one ledger row per material: a second
\* movement of a material is stored over the first.
CreateInventoryMovementUpsert(c, uid) ==
    /\ RowCount < MaxRows
    /\ response' = InventoryMovementCreateOutcome(c, uid)
    /\ inventory_movements' =
           IF response' # "ok" THEN inventory_movements
           ELSE IF \E i \in Keys(inventory_movements) :
                       inventory_movements[i].raw_material_id = c.raw_material_id
                THEN [i \in Keys(inventory_movements) |->
                         IF inventory_movements[i].raw_material_id = c.raw_material_id
                         THEN InventoryMovement(c, uid)
                         ELSE inventory_movements[i]]
                ELSE Append(inventory_movements, InventoryMovement(c, uid))
    /\ UNCHANGED << users, raw_materials, opnameTables, orderTables,
                    financeTables, staffTables >>

CreateInventoryMovement(c, uid) ==
    /\ RowCount < MaxRows
    /\ response' = InventoryMovementCreateOutcome(c, uid)
    /\ inventory_movements' =
           IF response' = "ok"
           THEN Append(inventory_movements, InventoryMovement(c, uid))
           ELSE inventory_movements
    /\ UNCHANGED << users, raw_materials, opnameTables, orderTables,
                    financeTables, staffTables >>

\* The requests the inventory runs draw from.
InventoryUsers == {c \in UserCreate : c.username = "ani" /\ c.email = "ani@bag.id"}

InventoryUpdates == {s \in RawMaterialUpdate : s.unit_price = None}

InventoryMovements == {c \in InventoryMovementCreate : c.quantity = 15}

NextInventory ==
    \/ \E c \in InventoryUsers : CreateUser(c)
    \/ \E c \in RawMaterialCreate : CreateRawMaterial(c)
    \/ \E id \in Ids, s \in InventoryUpdates : UpdateRawMaterial(id, s, Some(Now))
    \/ \E id \in Ids, v \in StockLevels : WriteCurrentStock(id, v)
    \/ \E c \in InventoryMovements, uid \in Ids : CreateInventoryMovement(c, uid)

SpecInventory == Init /\ [][NextInventory]_vars

(***************************************************************************)
(* Stock opname: the count event and its items.  Neither table has a       *)
(* Create or an Update shape; a row is built from the fields its class     *)
(* requires, and its nullable or defaulted columns are stored later.       *)
(***************************************************************************)
\* StockOpname built already in progress.
StockOpnameStarted(number, uid) ==
    [opname_number |-> number, user_id |-> uid, status |-> "in_progress"]

\* The row built for a new StockOpname: status takes its default.
StockOpname(number, uid) ==
    [opname_number |-> number, user_id |-> uid, status |-> "planned"]

StockOpnameCreateOutcome(number, uid) ==
    Outcome(UniqueViolation(stock_opnames, 0, "opname_number", number),
            ForeignKeyViolation(users, uid))

CreateStockOpname(number, uid) ==
    /\ RowCount < MaxRows
    /\ response' = StockOpnameCreateOutcome(number, uid)
    /\ stock_opnames' = IF response' = "ok"
                        THEN Append(stock_opnames, StockOpname(number, uid))
                        ELSE stock_opnames
    /\ UNCHANGED << inventoryTables, stock_opname_items, orderTables,
                    financeTables, staffTables >>

\* The statuses the column takes after `old`: any member of the enumeration.
StockOpnameStatusAfter(old) == StockOpnameStatus \ {old}

WriteStockOpnameStatus(id, s) ==
    /\ id \in Keys(stock_opnames)
    /\ s \in StockOpnameStatusAfter(stock_opnames[id].status)
    /\ response' = "ok"
    /\ stock_opnames' = [stock_opnames EXCEPT ![id].status = s]
    /\ UNCHANGED << inventoryTables, stock_opname_items, orderTables,
                    financeTables, staffTables >>

\* The row built for a new StockOpnameItem: physical_stock and difference
\* take their default, None.
StockOpnameItem(oid, rid, system) ==
    [stock_opname_id |-> oid, raw_material_id |-> rid, system_stock |-> system,
     physical_stock |-> None, difference |-> None]

StockOpnameItemCreateOutcome(oid, rid) ==
    Outcome(FALSE,
            ForeignKeyViolation(stock_opnames, oid)
                \/ ForeignKeyViolation(raw_materials, rid))

CreateStockOpnameItem(oid, rid, system) ==
    /\ RowCount < MaxRows
    /\ response' = StockOpnameItemCreateOutcome(oid, rid)
    /\ stock_opname_items' =
           IF response' = "ok"
           THEN Append(stock_opname_items, StockOpnameItem(oid, rid, system))
           ELSE stock_opname_items
    /\ UNCHANGED << inventoryTables, stock_opnames, orderTables, financeTables,
                    staffTables >>

\* WithPhysicalStock that derives difference from the count.
WithPhysicalStockAndDifference(item, p) ==
    [item EXCEPT !.physical_stock = p,
                 !.difference = IF p = None THEN None
                                ELSE Some(ValueOf(p) - item.system_stock)]

\* The row after the counted quantity p is stored: physical_stock and
\* difference are two plain columns, and storing one leaves the other.
WithPhysicalStock(item, p) == [item EXCEPT !.physical_stock = p]

WritePhysicalStock(id, p) ==
    /\ id \in Keys(stock_opname_items)
    /\ stock_opname_items[id].physical_stock # p
    /\ response' = "ok"
    /\ stock_opname_items' =
           [stock_opname_items EXCEPT ![id] = WithPhysicalStock(@, p)]
    /\ UNCHANGED << inventoryTables, stock_opnames, orderTables, financeTables,
                    staffTables >>

WriteDifference(id, d) ==
    /\ id \in Keys(stock_opname_items)
    /\ stock_opname_items[id].difference # d
    /\ response' = "ok"
    /\ stock_opname_items' = [stock_opname_items EXCEPT ![id].difference = d]
    /\ UNCHANGED << inventoryTables, stock_opnames, orderTables, financeTables,
                    staffTables >>

\* The requests the opname runs draw from.
OpnameMaterials == {c \in RawMaterialCreate : c.code = "RM-1" /\ c.minimum_stock = 0}

PhysicalStocks == {10, 12}

Differences == {-2, 0}

NextOpname ==
    \/ \E c \in InventoryUsers : CreateUser(c)
    \/ \E c \in OpnameMaterials : CreateRawMaterial(c)
    \/ \E number \in Numbers, uid \in Ids : CreateStockOpname(number, uid)
    \/ \E id \in Ids, s \in StockOpnameStatus : WriteStockOpnameStatus(id, s)
    \/ \E oid \in Ids, rid \in Ids : CreateStockOpnameItem(oid, rid, 12)
    \/ \E id \in Ids, p \in Opt(PhysicalStocks) : WritePhysicalStock(id, p)
    \/ \E id \in Ids, d \in Opt(Differences) : WriteDifference(id, d)

SpecOpname == Init /\ [][NextOpname]_vars

(***************************************************************************)
(* Customers, orders, products and order items.                            *)
(***************************************************************************)
CustomerCreate == [name : {"toko tas"}]

Customer(c) == [name |-> c.name]

CreateCustomer(c) ==
    /\ RowCount < MaxRows
    /\ response' = "ok"
    /\ customers' = Append(customers, Customer(c))
    /\ UNCHANGED << inventoryTables, opnameTables, orders, products, order_items,
                    financeTables, staffTables >>

OrderCreate == [order_number : Numbers, customer_id : Ids, due_date : {1}]

OrderUpdate ==
    [status : Opt(OrderStatus), due_date : Opt({2}), completion_date : Opt({2})]

\* Order built already in progress.
OrderStarted(c) ==
    [order_number |-> c.order_number, customer_id |-> c.customer_id,
     status |-> "in_progress", due_date |-> c.due_date, completion_date |-> None,
     total_amount |-> 0, updated_at |-> None]

\* The row built from an OrderCreate shape: the shape carries neither status
\* nor total_amount, which take their defaults.
Order(c) ==
    [order_number |-> c.order_number, customer_id |-> c.customer_id,
     status |-> "pending", due_date |-> c.due_date, completion_date |-> None,
     total_amount |-> 0, updated_at |-> None]

OrderCreateOutcome(c) ==
    Outcome(UniqueViolation(orders, 0, "order_number", c.order_number),
            ForeignKeyViolation(customers, c.customer_id))

CreateOrder(c) ==
    /\ RowCount < MaxRows
    /\ response' = OrderCreateOutcome(c)
    /\ orders' = IF response' = "ok" THEN Append(orders, Order(c)) ELSE orders
    /\ UNCHANGED << inventoryTables, opnameTables, customers, products,
                    order_items, financeTables, staffTables >>

\* The row an OrderUpdate shape turns row o into: status is any OrderStatus,
\* whatever o.status is; the shape carries neither order_number nor
\* total_amount.  completion_date is Optional in the row as well.
ApplyOrderUpdate(o, s, stamp) ==
    [o EXCEPT !.status = OrElse(s.status, @),
              !.due_date = OrElse(s.due_date, @),
              !.completion_date = OrKeep(s.completion_date, @),
              !.updated_at = OrKeep(stamp, @)]

UpdateOrder(id, s, stamp) ==
    /\ id \in Keys(orders)
    /\ response' = "ok"
    /\ orders' = [orders EXCEPT ![id] = ApplyOrderUpdate(@, s, stamp)]
    /\ UNCHANGED << inventoryTables, opnameTables, customers, products,
                    order_items, financeTables, staffTables >>

\* total_amount is a stored Decimal column that no shape carries.
WriteTotalAmount(id, v) ==
    /\ id \in Keys(orders)
    /\ orders[id].total_amount # v
    /\ response' = "ok"
    /\ orders' = [orders EXCEPT ![id].total_amount = v]
    /\ UNCHANGED << inventoryTables, opnameTables, customers, products,
                    order_items, financeTables, staffTables >>

Product(code) == [code |-> code, unit_price |-> 0]

ProductCreateOutcome(code) ==
    Outcome(UniqueViolation(products, 0, "code", code), FALSE)

CreateProduct(code) ==
    /\ RowCount < MaxRows
    /\ response' = ProductCreateOutcome(code)
    /\ products' = IF response' = "ok" THEN Append(products, Product(code))
                   ELSE products
    /\ UNCHANGED << inventoryTables, opnameTables, customers, orders,
                    order_items, financeTables, staffTables >>

\* The row built for a new OrderItem: total_price has no default, it is
\* whatever the caller passes.
OrderItem(oid, pid, quantity, price, total) ==
    [order_id |-> oid, product_id |-> pid, raw_material_id |-> None,
     quantity |-> quantity, unit_price |-> price, total_price |-> total]

OrderItemCreateOutcome(oid, pid) ==
    Outcome(FALSE,
            ForeignKeyViolation(orders, oid)
                \/ (pid # None /\ ForeignKeyViolation(products, ValueOf(pid))))

\* CreateOrderItem that also adds the item's total_price to its order.
CreateOrderItemAddingTotal(oid, pid, quantity, price, total) ==
    /\ RowCount < MaxRows
    /\ response' = OrderItemCreateOutcome(oid, pid)
    /\ order_items' =
           IF response' = "ok"
           THEN Append(order_items, OrderItem(oid, pid, quantity, price, total))
           ELSE order_items
    /\ orders' = IF response' = "ok"
                 THEN [orders EXCEPT ![oid].total_amount = @ + total]
                 ELSE orders
    /\ UNCHANGED << inventoryTables, opnameTables, customers, products,
                    financeTables, staffTables >>

\* Building an OrderItem stores the item and nothing else.
CreateOrderItem(oid, pid, quantity, price, total) ==
    /\ RowCount < MaxRows
    /\ response' = OrderItemCreateOutcome(oid, pid)
    /\ order_items' =
           IF response' = "ok"
           THEN Append(order_items, OrderItem(oid, pid, quantity, price, total))
           ELSE order_items
    /\ UNCHANGED << inventoryTables, opnameTables, customers, orders, products,
                    financeTables, staffTables >>

\* The requests the order runs draw from.
OrderUpdates == {s \in OrderUpdate : s.due_date = None /\ s.completion_date = None}

NextOrder ==
    \/ \E c \in CustomerCreate : CreateCustomer(c)
    \/ \E c \in OrderCreate : CreateOrder(c)
    \/ \E id \in Ids, s \in OrderUpdates : UpdateOrder(id, s, Some(Now))
    \/ \E id \in Ids, v \in Amounts : WriteTotalAmount(id, v)
    \/ \E oid \in Ids : CreateOrderItem(oid, None, 5, 3, 15)

SpecOrder == Init /\ [][NextOrder]_vars

(***************************************************************************)
(* Financial categories and transactions, departments and employees.       *)
(***************************************************************************)
FinancialCategory(type) == [name |-> "sales", transaction_type |-> type]

CreateFinancialCategory(type) ==
    /\ RowCount < MaxRows
    /\ response' = "ok"
    /\ financial_categories' = Append(financial_categories, FinancialCategory(type))
    /\ UNCHANGED << inventoryTables, opnameTables, orderTables,
                    financial_transactions, staffTables >>

FinancialTransactionCreate ==
    [transaction_number : Numbers, category_id : Ids,
     transaction_type : TransactionType, amount : {15}]

FinancialTransaction(c, uid) ==
    [transaction_number |-> c.transaction_number, user_id |-> uid,
     category_id |-> c.category_id, transaction_type |-> c.transaction_type,
     amount |-> c.amount, updated_at |-> None]

FinancialTransactionCreateOutcome(c, uid) ==
    Outcome(UniqueViolation(financial_transactions, 0, "transaction_number",
                            c.transaction_number),
            ForeignKeyViolation(users, uid)
                \/ ForeignKeyViolation(financial_categories, c.category_id))

CreateFinancialTransaction(c, uid) ==
    /\ RowCount < MaxRows
    /\ response' = FinancialTransactionCreateOutcome(c, uid)
    /\ financial_transactions' =
           IF response' = "ok"
           THEN Append(financial_transactions, FinancialTransaction(c, uid))
           ELSE financial_transactions
    /\ UNCHANGED << inventoryTables, opnameTables, orderTables,
                    financial_categories, staffTables >>

Department(name) == [name |-> name, is_active |-> TRUE]

DepartmentCreateOutcome(name) ==
    Outcome(UniqueViolation(departments, 0, "name", name), FALSE)

CreateDepartment(name) ==
    /\ RowCount < MaxRows
    /\ response' = DepartmentCreateOutcome(name)
    /\ departments' = IF response' = "ok"
                      THEN Append(departments, Department(name))
                      ELSE departments
    /\ UNCHANGED << inventoryTables, opnameTables, orderTables, financeTables,
                    employees >>

EmployeeCreate == [employee_number : Numbers, department_id : Ids]

Employee(c) ==
    [employee_number |-> c.employee_number, department_id |-> c.department_id,
     salary |-> None, is_active |-> TRUE, updated_at |-> None]

EmployeeCreateOutcome(c) ==
    Outcome(UniqueViolation(employees, 0, "employee_number", c.employee_number),
            ForeignKeyViolation(departments, c.department_id))

CreateEmployee(c) ==
    /\ RowCount < MaxRows
    /\ response' = EmployeeCreateOutcome(c)
    /\ employees' = IF response' = "ok" THEN Append(employees, Employee(c))
                    ELSE employees
    /\ UNCHANGED << inventoryTables, opnameTables, orderTables, financeTables,
                    departments >>

(***************************************************************************)
(* The runs over the tables that declare a unique column.                  *)
(***************************************************************************)
UniqueUserUpdates == {s \in UserUpdate : s.role = None /\ s.is_active = None}

UniqueMaterials == {c \in RawMaterialCreate : c.minimum_stock = 0}

UniqueOrders == {c \in OrderCreate : c.customer_id = 1}

UniqueTransactions ==
    {c \in FinancialTransactionCreate :
        c.category_id = 1 /\ c.transaction_type = "income"}

UniqueEmployees == {c \in EmployeeCreate : c.department_id = 1}

NextUnique ==
    \/ \E c \in UserCreate : CreateUser(c)
    \/ \E id \in Ids, s \in UniqueUserUpdates : UpdateUser(id, s, Some(Now))
    \/ \E c \in UniqueMaterials : CreateRawMaterial(c)
    \/ \E code \in Codes : CreateProduct(code)
    \/ \E number \in Numbers : CreateStockOpname(number, 1)
    \/ \E c \in CustomerCreate : CreateCustomer(c)
    \/ \E c \in UniqueOrders : CreateOrder(c)
    \/ CreateFinancialCategory("income")
    \/ \E c \in UniqueTransactions : CreateFinancialTransaction(c, 1)
    \/ \E name \in DepartmentNames : CreateDepartment(name)
    \/ \E c \in UniqueEmployees : CreateEmployee(c)

SpecUnique == Init /\ [][NextUnique]_vars

(***************************************************************************)
(* The runs over the three tables that have an Update shape.               *)
(***************************************************************************)
UpdateRunUsers == {c \in UserCreate : c.username = "ani" /\ c.email = "ani@bag.id"}

UpdateRunOrders == {c \in OrderCreate : c.order_number = "N-1" /\ c.customer_id = 1}

UpdateUserShapes == {s \in UserUpdate : s.email = None}

UpdateOrderShapes == {s \in OrderUpdate : s.status \in Opt({"completed"})}

NextUpdate ==
    \/ \E c \in UpdateRunUsers : CreateUser(c)
    \/ \E id \in Ids, s \in UpdateUserShapes, stamp \in Opt({Now}) : UpdateUser(id, s, stamp)
    \/ \E c \in OpnameMaterials : CreateRawMaterial(c)
    \/ \E id \in Ids, s \in RawMaterialUpdate, stamp \in Opt({Now}) :
           UpdateRawMaterial(id, s, stamp)
    \/ \E c \in CustomerCreate : CreateCustomer(c)
    \/ \E c \in UpdateRunOrders : CreateOrder(c)
    \/ \E id \in Ids, s \in UpdateOrderShapes, stamp \in Opt({Now}) : UpdateOrder(id, s, stamp)

SpecUpdate == Init /\ [][NextUpdate]_vars

(***************************************************************************)
(* Every operation, every request.                                         *)
(***************************************************************************)
Next ==
    \/ \E c \in UserCreate : CreateUser(c)
    \/ \E id \in Ids, s \in UserUpdate, stamp \in Opt({Now}) : UpdateUser(id, s, stamp)
    \/ \E c \in RawMaterialCreate : CreateRawMaterial(c)
    \/ \E id \in Ids, s \in RawMaterialUpdate, stamp \in Opt({Now}) :
           UpdateRawMaterial(id, s, stamp)
    \/ \E id \in Ids, v \in StockLevels : WriteCurrentStock(id, v)
    \/ \E c \in InventoryMovementCreate, uid \in Ids : CreateInventoryMovement(c, uid)
    \/ \E number \in Numbers, uid \in Ids : CreateStockOpname(number, uid)
    \/ \E id \in Ids, s \in StockOpnameStatus : WriteStockOpnameStatus(id, s)
    \/ \E oid \in Ids, rid \in Ids, system \in StockLevels :
           CreateStockOpnameItem(oid, rid, system)
    \/ \E id \in Ids, p \in Opt(PhysicalStocks) : WritePhysicalStock(id, p)
    \/ \E id \in Ids, d \in Opt(Differences) : WriteDifference(id, d)
    \/ \E c \in CustomerCreate : CreateCustomer(c)
    \/ \E c \in OrderCreate : CreateOrder(c)
    \/ \E id \in Ids, s \in OrderUpdate, stamp \in Opt({Now}) : UpdateOrder(id, s, stamp)
    \/ \E id \in Ids, v \in Amounts : WriteTotalAmount(id, v)
    \/ \E code \in Codes : CreateProduct(code)
    \/ \E oid \in Ids, pid \in Opt(Ids), q \in Quantities, p \in Prices, t \in Amounts :
           CreateOrderItem(oid, pid, q, p, t)
    \/ \E type \in TransactionType : CreateFinancialCategory(type)
    \/ \E c \in FinancialTransactionCreate, uid \in Ids :
           CreateFinancialTransaction(c, uid)
    \/ \E name \in DepartmentNames : CreateDepartment(name)
    \/ \E c \in EmployeeCreate : CreateEmployee(c)

Spec == Init /\ [][Next]_vars

(***************************************************************************)
(* Properties.                                                             *)
(***************************************************************************)
\* The rows a step adds to a table.
NewKeys(old, new) == Keys(new) \ Keys(old)

\* The quantity a movement adds to its material's stock.
Signed(m) == IF m.movement_type = "out" THEN 0 - m.quantity ELSE m.quantity

RECURSIVE Replay(_, _)
\* The stock of material rid after replaying the ledger from 0.
Replay(ledger, rid) ==
    IF ledger = << >> THEN 0
    ELSE (IF Head(ledger).raw_material_id = rid THEN Signed(Head(ledger)) ELSE 0)
         + Replay(Tail(ledger), rid)

RECURSIVE SumOfItems(_, _)
\* The sum of total_price over the items of order oid.
SumOfItems(items, oid) ==
    IF items = << >> THEN 0
    ELSE (IF Head(items).order_id = oid THEN Head(items).total_price ELSE 0)
         + SumOfItems(Tail(items), oid)

\* C1, as claimed: in every reachable state the stored current_stock of every
\* RawMaterial equals the replay of the movements that reference it.
C1_StockEqualsReplay ==
    \A id \in Keys(raw_materials) :
        raw_materials[id].current_stock = Replay(inventory_movements, id)

\* C1, amended: a RawMaterial built from RawMaterialCreate has current_stock
\* 0; a step that stores a movement changes no raw material; and a step that
\* changes a current_stock changes nothing else, neither another column of
\* the row (so it is no RawMaterialUpdate) nor the ledger.
C1_StockOnlyStored ==
    [][ /\ \A id \in NewKeys(raw_materials, raw_materials') :
               raw_materials'[id].current_stock = 0
        /\ inventory_movements' # inventory_movements => raw_materials' = raw_materials
        /\ \A id \in Keys(raw_materials) :
               raw_materials'[id].current_stock # raw_materials[id].current_stock
                   => /\ raw_materials'[id] =
                             [raw_materials[id] EXCEPT
                                  !.current_stock = raw_materials'[id].current_stock]
                      /\ inventory_movements' = inventory_movements ]_vars

\* C1's case: a movement of 15 into material 1 is in the ledger and the
\* material's stored current_stock is still 0.
C1_Witness ==
    /\ Len(raw_materials) >= 1
    /\ raw_materials[1].current_stock = 0
    /\ \E i \in Keys(inventory_movements) :
           /\ inventory_movements[i].raw_material_id = 1
           /\ inventory_movements[i].movement_type = "in"
    /\ Replay(inventory_movements, 1) = 15

\* C2 and C3: the status changes the claims allow.
StockOpnameLifecycle ==
    { <<"planned", "in_progress">>, <<"in_progress", "completed">>,
      <<"planned", "cancelled">>, <<"in_progress", "cancelled">> }

OrderLifecycle ==
    { <<"pending", "in_progress">>, <<"in_progress", "completed">>,
      <<"completed", "delivered">>, <<"pending", "cancelled">>,
      <<"in_progress", "cancelled">>, <<"completed", "cancelled">> }

\* C2, as claimed: a StockOpname starts as Planned and its status changes only
\* along Planned -> InProgress -> Completed, or to Cancelled from Planned or
\* InProgress.
C2_LinearLifecycle ==
    [][ /\ \A id \in NewKeys(stock_opnames, stock_opnames') :
               stock_opnames'[id].status = "planned"
        /\ \A id \in Keys(stock_opnames) :
               \/ stock_opnames'[id].status = stock_opnames[id].status
               \/ << stock_opnames[id].status, stock_opnames'[id].status >>
                      \in StockOpnameLifecycle ]_vars

\* C2, amended: a StockOpname starts as Planned, its status is always one of
\* the four StockOpnameStatus values, and it changes only in a step that
\* stores it (no step that adds a row, to any table, changes it); which
\* status follows which is not restricted.
C2_StartsPlanned ==
    [][ /\ \A id \in NewKeys(stock_opnames, stock_opnames') :
               stock_opnames'[id].status = "planned"
        /\ \A id \in Keys(stock_opnames) :
               /\ stock_opnames'[id].status \in StockOpnameStatus
               /\ RowCount' # RowCount
                      => stock_opnames'[id].status = stock_opnames[id].status ]_vars

\* C2's case: one opname has been completed and a later one has just been
\* created.
C2_Witness ==
    /\ Len(stock_opnames) = 2
    /\ stock_opnames[1].status = "completed"
    /\ stock_opnames[2].status = "planned"

\* C3, as claimed: an Order starts as Pending and its status changes only by
\* the forward steps, or to Cancelled from a status that is not terminal.
C3_LinearProgress ==
    [][ /\ \A id \in NewKeys(orders, orders') : orders'[id].status = "pending"
        /\ \A id \in Keys(orders) :
               \/ orders'[id].status = orders[id].status
               \/ << orders[id].status, orders'[id].status >> \in OrderLifecycle ]_vars

\* C3, amended: an Order built from OrderCreate starts as Pending, its status
\* is always one of the five OrderStatus values, and it changes only in a
\* step that leaves the number of rows alone (an OrderUpdate, not the
\* creation of an order or of an item); which status follows which is not
\* restricted.
C3_StartsPending ==
    [][ /\ \A id \in NewKeys(orders, orders') : orders'[id].status = "pending"
        /\ \A id \in Keys(orders) :
               /\ orders'[id].status \in OrderStatus
               /\ RowCount' # RowCount => orders'[id].status = orders[id].status ]_vars

\* C3's case: one order has been delivered and a later one has just been
\* built from OrderCreate.
C3_Witness ==
    /\ Len(orders) = 2
    /\ orders[1].status = "delivered"
    /\ orders[2].status = "pending"
    /\ orders[2].updated_at = None

\* C4, as claimed: in every reachable state the total_amount of every Order
\* equals the sum of total_price over its items.
C4_TotalEqualsSum ==
    \A id \in Keys(orders) : orders[id].total_amount = SumOfItems(order_items, id)

\* C4, amended: an Order built from OrderCreate has total_amount 0; a step
\* that stores an OrderItem changes no order; and a step that changes a
\* total_amount changes nothing else, neither another column of the row (so
\* it is no OrderUpdate) nor the items.
C4_TotalOnlyStored ==
    [][ /\ \A id \in NewKeys(orders, orders') : orders'[id].total_amount = 0
        /\ order_items' # order_items => orders' = orders
        /\ \A id \in Keys(orders) :
               orders'[id].total_amount # orders[id].total_amount
                   => /\ orders'[id] =
                             [orders[id] EXCEPT
                                  !.total_amount = orders'[id].total_amount]
                      /\ order_items' = order_items ]_vars

\* C4's case: order 1 holds an item of total_price 15, has been through an
\* OrderUpdate, and its total_amount is still 0.
C4_Witness ==
    /\ Len(orders) >= 1
    /\ orders[1].total_amount = 0
    /\ orders[1].updated_at # None
    /\ SumOfItems(order_items, 1) = 15

\* C5, as claimed: every InventoryMovement has total_value equal to quantity
\* times unit_price.
C5_TotalValueIsProduct ==
    \A i \in Keys(inventory_movements) :
        inventory_movements[i].total_value
            = inventory_movements[i].quantity * inventory_movements[i].unit_price

\* C5, amended: every InventoryMovement built from an InventoryMovementCreate
\* shape has total_value 0, the column's default, whatever its quantity and
\* unit_price are.
C5_TotalValueIsDefault ==
    \A i \in Keys(inventory_movements) : inventory_movements[i].total_value = 0

\* C5's case: a movement of quantity 15 at unit_price 3 is in the ledger.
C5_Witness ==
    \E i \in Keys(inventory_movements) :
        /\ inventory_movements[i].quantity = 15
        /\ inventory_movements[i].unit_price = 3
        /\ inventory_movements[i].total_value = 0

\* C6, as claimed: every StockOpnameItem whose physical_stock is set has
\* difference equal to physical_stock minus system_stock.
C6_DifferenceIsComputed ==
    \A i \in Keys(stock_opname_items) :
        stock_opname_items[i].physical_stock # None
            => stock_opname_items[i].difference
                   = Some(ValueOf(stock_opname_items[i].physical_stock)
                          - stock_opname_items[i].system_stock)

\* C6, amended: a StockOpnameItem is built with physical_stock and difference
\* both null, and a step that changes an item's physical_stock leaves its
\* difference as it was.
C6_DifferenceOnlyStored ==
    [][ /\ \A i \in NewKeys(stock_opname_items, stock_opname_items') :
               /\ stock_opname_items'[i].physical_stock = None
               /\ stock_opname_items'[i].difference = None
        /\ \A i \in Keys(stock_opname_items) :
               stock_opname_items'[i].physical_stock # stock_opname_items[i].physical_stock
                   => stock_opname_items'[i].difference = stock_opname_items[i].difference
      ]_vars

\* C6's case: an item counted at 10 against a system_stock of 12 whose
\* difference is null.
C6_Witness ==
    \E i \in Keys(stock_opname_items) :
        /\ stock_opname_items[i].system_stock = 12
        /\ stock_opname_items[i].physical_stock = Some(10)
        /\ stock_opname_items[i].difference = None

\* No two rows of the table hold the same value in column f.
UniqueColumn(table, f) ==
    \A i, j \in Keys(table) : table[i][f] = table[j][f] => i = j

\* C7: no two stored rows of a table share a value of a unique column
\* (User.username, User.email, RawMaterial.code, Product.code,
\* StockOpname.opname_number, Order.order_number,
\* FinancialTransaction.transaction_number, Employee.employee_number,
\* Department.name), and a create or update turned down for a duplicate
\* leaves every table as it was.
C7_DuplicatesRejected ==
    /\ [](/\ UniqueColumn(users, "username")
          /\ UniqueColumn(users, "email")
          /\ UniqueColumn(raw_materials, "code")
          /\ UniqueColumn(products, "code")
          /\ UniqueColumn(stock_opnames, "opname_number")
          /\ UniqueColumn(orders, "order_number")
          /\ UniqueColumn(financial_transactions, "transaction_number")
          /\ UniqueColumn(employees, "employee_number")
          /\ UniqueColumn(departments, "name"))
    /\ [][response' = "unique_violation" => tables' = tables]_vars

\* C7's case: two users are stored and the last request, a create or an
\* update that would have duplicated a value, was turned down.
C7_Witness ==
    /\ Len(users) = 2
    /\ users[2].updated_at # None
    /\ response = "unique_violation"

C10_NoStockFloor ==
    \A c \in InventoryMovementCreate, uid \in Keys(users) :
        (c.raw_material_id \in Keys(raw_materials) /\ c.movement_type = "out")
            => InventoryMovementCreateOutcome(c, uid) = "ok"

\* C10's case: material 1 has minimum_stock 10, an 'out' movement of 15 of it
\* has been accepted, and its current_stock is -3: below the minimum and
\* below zero.
C10_Witness ==
    /\ Len(raw_materials) >= 1
    /\ raw_materials[1].minimum_stock = 10
    /\ raw_materials[1].current_stock = 0 - 3
    /\ \E i \in Keys(inventory_movements) :
           /\ inventory_movements[i].raw_material_id = 1
           /\ inventory_movements[i].movement_type = "out"
           /\ inventory_movements[i].quantity = 15
    /\ response = "ok"

====
